---- MODULE Spec2Model ----
(***************************************************************************)
(* Model of the MDB receiver (src/server.js and its older variant          *)
(* src/unnamed/part_000): an Express server that keeps one JSON file,      *)
(* DATA_FILE, and rewrites it whole on every append or clear.              *)
(*                                                                         *)
(* JavaScript values are encoded as strings: "s:<text>" a string,          *)
(* "n:<digits>" a number, "n:Infinity" the non-finite number that          *)
(* JSON.parse yields for a literal such as 1e999, "null", and "undefined"  *)
(* for a missing property.  An object is the sequence of its <<key,value>> *)
(* pairs in insertion order.  The text of DATA_FILE is a sequence of JSON  *)
(* tokens (whitespace and commas carry no information and are left out).   *)
(***************************************************************************)
EXTENDS Integers, Sequences, FiniteSets, TLC

VARIABLES
    file,      \* DATA_FILE on disk: [exists, content]
    req,       \* the request handled last: [route, body]
    io,        \* what the last handler did to the store: [loads, writes, outcome]
    resp,      \* the response sent to the last request
    prior,     \* number of records persisted when the last request came in
    inflight,  \* requests accepted by the HTTP layer, handler not yet run
    answered,  \* responses to the requests that were in flight
    active,    \* handlers that have started and not yet answered (SpecSteps)
    old        \* the part_000 server run beside server.js: its file and answer

vars == <<file, req, io, resp, prior, inflight, answered, active, old>>

----------------------------------------------------------------------------
(* Bounds of the model *)

MaxLen == 2          \* appends are explored while the collection is shorter
MaxCut == 3          \* a write that fails midway leaves at most this many tokens
MaxInflight == 2     \* requests in flight at once (SpecConc)
MaxLatestLen == 11   \* collection length explored by SpecLatest

LatestN == 10        \* allData.slice(-10)

----------------------------------------------------------------------------
(* JSON text *)

LBracket == <<"[", "">>
RBracket == <<"]", "">>
LBrace   == <<"{", "">>
RBrace   == <<"}", "">>
KeyTok(k) == <<"key", k>>
ValTok(v) == <<"val", v>>

NonFinite == {"n:Infinity", "n:-Infinity", "n:NaN"}

\* JSON.stringify of one property value: a non-finite number is written null
SerializeValue(v) == IF v \in NonFinite THEN "null" ELSE v

RECURSIVE SerializeObject(_)
SerializeObject(obj) ==
    IF obj = <<>> THEN <<>>
    ELSE <<KeyTok(Head(obj)[1]), ValTok(SerializeValue(Head(obj)[2]))>>
         \o SerializeObject(Tail(obj))

RECURSIVE SerializeElements(_)
SerializeElements(data) ==
    IF data = <<>> THEN <<>>
    ELSE <<LBrace>> \o SerializeObject(Head(data)) \o <<RBrace>>
         \o SerializeElements(Tail(data))

\* JSON.stringify(data, null, 2) of an array of objects
JSONstringify(data) == <<LBracket>> \o SerializeElements(data) \o <<RBracket>>

\* index of the pair with key k in obj, 0 when there is none
RECURSIVE IndexOfKey(_, _, _)
IndexOfKey(obj, k, i) ==
    IF i > Len(obj) THEN 0
    ELSE IF obj[i][1] = k THEN i
    ELSE IndexOfKey(obj, k, i + 1)

\* obj[k] = v: an existing key keeps its position, a new key goes last
SetProp(obj, k, v) ==
    LET i == IndexOfKey(obj, k, 1) IN
    IF i = 0 THEN Append(obj, <<k, v>>)
    ELSE [obj EXCEPT ![i] = <<k, v>>]

\* obj.k
GetProp(obj, k) ==
    LET i == IndexOfKey(obj, k, 1) IN
    IF i = 0 THEN "undefined" ELSE obj[i][2]

\* members of an object from position i: key/value pairs up to the closing
\* brace.  [ok, obj, next]: next is the position after the brace.
RECURSIVE ParseMembers(_, _, _)
ParseMembers(toks, i, acc) ==
    IF i > Len(toks) THEN [ok |-> FALSE, obj |-> <<>>, next |-> i]
    ELSE IF toks[i] = RBrace THEN [ok |-> TRUE, obj |-> acc, next |-> i + 1]
    ELSE IF toks[i][1] = "key" /\ i + 1 <= Len(toks) /\ toks[i + 1][1] = "val"
         THEN ParseMembers(toks, i + 2, SetProp(acc, toks[i][2], toks[i + 1][2]))
    ELSE [ok |-> FALSE, obj |-> <<>>, next |-> i]

\* elements of the array from position i up to the closing bracket, which
\* must be the last token of the text
RECURSIVE ParseElements(_, _, _)
ParseElements(toks, i, acc) ==
    IF i > Len(toks) THEN [ok |-> FALSE, value |-> <<>>]
    ELSE IF toks[i] = RBracket
         THEN IF i = Len(toks) THEN [ok |-> TRUE, value |-> acc]
              ELSE [ok |-> FALSE, value |-> <<>>]
    ELSE IF toks[i] = LBrace
         THEN LET m == ParseMembers(toks, i + 1, <<>>) IN
              IF m.ok THEN ParseElements(toks, m.next, Append(acc, m.obj))
              ELSE [ok |-> FALSE, value |-> <<>>]
    ELSE [ok |-> FALSE, value |-> <<>>]

\* JSON.parse: ok = FALSE stands for the SyntaxError it throws.  array tells
\* whether the value is an array (of objects) or a single object.
JSONparse(toks) ==
    IF Len(toks) = 0 THEN [ok |-> FALSE, value |-> <<>>, array |-> TRUE]
    ELSE IF toks[1] = LBracket
         THEN LET e == ParseElements(toks, 2, <<>>) IN
              [ok |-> e.ok, value |-> e.value, array |-> TRUE]
    ELSE IF toks[1] = LBrace
         THEN LET m == ParseMembers(toks, 2, <<>>) IN
              IF m.ok /\ m.next = Len(toks) + 1
              THEN [ok |-> TRUE, value |-> m.obj, array |-> FALSE]
              ELSE [ok |-> FALSE, value |-> <<>>, array |-> TRUE]
    ELSE [ok |-> FALSE, value |-> <<>>, array |-> TRUE]

\* JSON.stringify(value, null, 2) of an array of objects or of one object
JSONstringifyValue(isArray, value) ==
    IF isArray THEN JSONstringify(value)
    ELSE <<LBrace>> \o SerializeObject(value) \o <<RBrace>>

----------------------------------------------------------------------------
(* The file system under DATA_FILE *)

NoFile == [exists |-> FALSE, content |-> <<>>]
FileOf(text) == [exists |-> TRUE, content |-> text]

\* How a call of fs.writeFileSync can end: "ok"; "eacces", open() fails and the
\* file is untouched; "enospc", open() has truncated the file and the write
\* stops after cut tokens.
WriteOutcomes ==
    {[kind |-> "ok", cut |-> 0], [kind |-> "eacces", cut |-> 0]}
    \cup {[kind |-> "enospc", cut |-> c] : c \in 0..MaxCut}

\* tokens on disk after a write that stopped early: the first cut tokens, never
\* the whole text
Truncated(text, cut) ==
    IF cut >= Len(text) THEN SubSeq(text, 1, Len(text) - 1)
    ELSE SubSeq(text, 1, cut)

\* fs.writeFileSync(DATA_FILE, text, 'utf8'): [file, threw]
writeFileSync(f, text, out) ==
    CASE out.kind = "ok"     -> [file |-> FileOf(text), threw |-> FALSE]
      [] out.kind = "eacces" -> [file |-> f, threw |-> TRUE]
      [] OTHER               -> [file |-> FileOf(Truncated(text, out.cut)), threw |-> TRUE]

\* the collection kept from startup instead of read from the file
loadData_Cached(f) == <<>>

loadData(f) ==
    IF f.exists
    THEN LET p == JSONparse(f.content) IN
         IF p.ok THEN p.value ELSE <<>>
    ELSE <<>>

\* whether what loadData returns is an array: not when DATA_FILE holds valid
\* JSON of another kind, which here is a text that opens an object and parses
LoadsArray(f) ==
    ~(/\ f.exists
      /\ Len(f.content) > 0
      /\ f.content[1] = LBrace
      /\ ~JSONparse(f.content).array)

\* saveData(data): [file, saved]
saveData(f, data, out) ==
    LET w == writeFileSync(f, JSONstringify(data), out) IN
    [file |-> w.file, saved |-> ~w.threw]

----------------------------------------------------------------------------
(* Requests and responses *)

\* request bodies as body-parser hands them to the handlers
EmptyBody     == <<>>
PhoneBody     == <<<<"phone", "s:+1555">>, <<"delay", "n:5">>, <<"timestamp", "n:0">>>>
StampBody     == <<<<"timestamp", "s:2024-01-01T00:00:00Z">>>>
SpoofBody     == <<<<"timestamp", "s:t2">>, <<"type", "s:spoof">>,
                   <<"receivedAt", "s:caller">>>>
OverflowBody  == <<<<"timestamp", "n:Infinity">>>>     \* {"timestamp": 1e999}

Bodies == {EmptyBody, PhoneBody, StampBody, SpoofBody, OverflowBody}

\* bodies for the legacy route: also a timestamp that is present but falsy,
\* and one that is truthy without being a string or a number
EmptyStringStampBody == <<<<"timestamp", "s:">>>>
NullStampBody        == <<<<"timestamp", "null">>>>
FalseStampBody       == <<<<"timestamp", "b:false">>>>
TrueStampBody        == <<<<"timestamp", "b:true">>>>

LegacyBodies ==
    Bodies \cup {EmptyStringStampBody, NullStampBody, FalseStampBody, TrueStampBody}

\* values new Date().toISOString() can return while a request is handled
Clock == {"s:2024-06-01T12:00:00.000Z"}

\* !v of JavaScript
Falsy == {"undefined", "null", "s:", "n:0", "n:-0", "n:NaN", "b:false"}
\* a check that the property is there, whatever its value
Truthy_Present(v) == v # "undefined"

Truthy(v) == v \notin Falsy

\* { ...target, ...source }: the own properties of source copied in order
RECURSIVE Spread(_, _)
Spread(target, source) ==
    IF source = <<>> THEN target
    ELSE Spread(SetProp(target, Head(source)[1], Head(source)[2]), Tail(source))

\* dataCount taken before the push
SuccessCount_BeforePush(n, now) ==
    [status |-> 200, envelope |-> "success", dataCount |-> n - 1, data |-> <<>>,
     raw |-> <<>>, timestamp |-> now]

\* res.status(200).json({success: true, message, dataCount, timestamp})
SuccessCount(n, now) ==
    [status |-> 200, envelope |-> "success", dataCount |-> n, data |-> <<>>,
     raw |-> <<>>, timestamp |-> now]
\* res.json({success: true, message})
SuccessPlain ==
    [status |-> 200, envelope |-> "success", dataCount |-> -1, data |-> <<>>,
     raw |-> <<>>, timestamp |-> "undefined"]
\* res.status(code).json({error})
ErrorResp(code) ==
    [status |-> code, envelope |-> "error", dataCount |-> -1, data |-> <<>>,
     raw |-> <<>>, timestamp |-> "undefined"]
\* res.json({count, data})
DataResp(d) ==
    [status |-> 200, envelope |-> "data", dataCount |-> Len(d), data |-> d,
     raw |-> <<>>, timestamp |-> "undefined"]
\* res.send(text)
RawResp(text) ==
    [status |-> 200, envelope |-> "raw", dataCount |-> -1, data |-> <<>>,
     raw |-> text, timestamp |-> "undefined"]
\* res.json({status: 'OK', server, timestamp})
HealthResp(now) ==
    [status |-> 200, envelope |-> "health", dataCount |-> -1, data |-> <<>>,
     raw |-> <<>>, timestamp |-> now]

\* what a handler did: calls of loadData and of saveData, how the write ended,
\* the record it pushed, and the number of responses it sent
NoRecord == <<>>
NoIO == [loads |-> 0, writes |-> 0, outcome |-> "none", pushed |-> NoRecord,
         sent |-> 1]
ReadIO == [loads |-> 1, writes |-> 0, outcome |-> "none", pushed |-> NoRecord,
           sent |-> 1]

\* catch (error) { res.status(500).json({error}) } after loadData returned
\* something that is no array: nothing is written
Caught(f) == [file |-> f, resp |-> ErrorResp(500), io |-> ReadIO]

\* receivedAt written before the spread: { type, receivedAt, ...receivedData }
Tagged_ReceivedAtFirst(tag, receivedData, now) ==
    Spread(<<<<"type", tag>>, <<"receivedAt", now>>>>, receivedData)

\* the object literal pushed by POST /automation and POST /account
Tagged(tag, receivedData, now) ==
    SetProp(Spread(<<<<"type", tag>>>>, receivedData), "receivedAt", now)

\* allData.unshift(record) in place of allData.push(record)
PushAndSave_Prepend(f, record, now, out) ==
    LET allData == <<record>> \o loadData(f)
        s       == saveData(f, allData, out)
    IN  [file   |-> s.file,
         resp   |-> IF s.saved THEN SuccessCount(Len(allData), now) ELSE ErrorResp(500),
         io     |-> [loads |-> 1, writes |-> 1, outcome |-> out.kind,
                     pushed |-> record, sent |-> 1]]

\* load, push, save, answer: the tail shared by the three POST handlers.
\* allData.push throws a TypeError when allData is no array.
PushAndSave(f, record, now, out) ==
    IF ~LoadsArray(f) THEN Caught(f) ELSE
    LET allData == Append(loadData(f), record)
        s       == saveData(f, allData, out)
    IN  [file   |-> s.file,
         resp   |-> IF s.saved THEN SuccessCount(Len(allData), now) ELSE ErrorResp(500),
         io     |-> [loads |-> 1, writes |-> 1, outcome |-> out.kind,
                     pushed |-> record, sent |-> 1]]

\* app.post('/automation')
automation(f, receivedData, now, out) ==
    PushAndSave(f, Tagged("s:automation", receivedData, now), now, out)

\* app.post('/account')
account(f, receivedData, now, out) ==
    PushAndSave(f, Tagged("s:account", receivedData, now), now, out)

\* the legacy route without its timestamp check
receive_NoValidation(f, receivedData, now, out) ==
    PushAndSave(f, receivedData, now, out)

\* the validation without its return: the 400 is sent and the handler goes on
\* to push, save and answer a second time
receive_NoReturn(f, receivedData, now, out) ==
    LET h == PushAndSave(f, receivedData, now, out) IN
    IF ~Truthy(GetProp(receivedData, "timestamp"))
    THEN [h EXCEPT !.io.sent = 2]
    ELSE h

\* app.post('/api/mdb/receive')
receive(f, receivedData, now, out) ==
    IF ~Truthy(GetProp(receivedData, "timestamp"))
    THEN [file |-> f, resp |-> ErrorResp(400), io |-> NoIO]
    ELSE PushAndSave(f, receivedData, now, out)

\* allData.slice(-10).reverse()
Reverse(s) == [i \in 1..Len(s) |-> s[Len(s) + 1 - i]]
SliceLast(s, n) == IF Len(s) <= n THEN s ELSE SubSeq(s, Len(s) - n + 1, Len(s))
\* allData.slice(-10) without .reverse()
Latest_NoReverse(allData) == SliceLast(allData, LatestN)

Latest(allData) == Reverse(SliceLast(allData, LatestN))

\* a read-all that writes back what it loaded
getData_Rewrites(f) ==
    [file |-> FileOf(JSONstringify(loadData(f))), resp |-> DataResp(loadData(f)),
     io |-> ReadIO]

\* app.get('/api/mdb/data')
getData(f) ==
    [file |-> f,
     resp |-> IF LoadsArray(f) THEN DataResp(loadData(f))
              ELSE [DataResp(loadData(f)) EXCEPT !.dataCount = -1],
     io |-> ReadIO]

\* app.get('/api/mdb/data/latest')
getLatest(f) ==
    IF ~LoadsArray(f) THEN Caught(f) ELSE
    [file |-> f, resp |-> DataResp(Latest(loadData(f))),
     io |-> ReadIO]

\* the export route sending the slice of the latest route
export_Latest(f) ==
    [file |-> f, resp |-> RawResp(JSONstringify(Latest(loadData(f)))),
     io |-> ReadIO]

\* app.get('/api/mdb/export')
export(f) ==
    [file |-> f,
     resp |-> RawResp(JSONstringifyValue(LoadsArray(f), loadData(f))),
     io |-> ReadIO]

\* the clear route writing back what it loaded
deleteData_SavesLoaded(f, out) ==
    LET s == saveData(f, loadData(f), out) IN
    [file |-> s.file, resp |-> SuccessPlain,
     io |-> [loads |-> 1, writes |-> 1, outcome |-> out.kind, pushed |-> NoRecord,
             sent |-> 1]]

\* app.delete('/api/mdb/data'): the result of saveData is not looked at
deleteData(f, out) ==
    LET s == saveData(f, <<>>, out) IN
    [file |-> s.file, resp |-> SuccessPlain,
     io |-> [loads |-> 0, writes |-> 1, outcome |-> out.kind, pushed |-> NoRecord,
             sent |-> 1]]

\* app.get('/api/health')
health(f, now) ==
    [file |-> f, resp |-> HealthResp(now), io |-> NoIO]

----------------------------------------------------------------------------
(* src/unnamed/part_000: the earlier server, which has the legacy receive,  *)
(* read-all, read-latest, export and clear routes only                       *)

old_loadData(f) ==
    IF f.exists
    THEN LET p == JSONparse(f.content) IN
         IF p.ok THEN p.value ELSE <<>>
    ELSE <<>>

old_LoadsArray(f) ==
    ~(/\ f.exists
      /\ Len(f.content) > 0
      /\ f.content[1] = LBrace
      /\ ~JSONparse(f.content).array)

old_saveData(f, data, out) ==
    LET w == writeFileSync(f, JSONstringify(data), out) IN
    [file |-> w.file, saved |-> ~w.threw]

\* the platform property of a value: "o:android" stands for the object
\* {platform: "android"}; strings, numbers and booleans have none
PlatformOf(v) == IF v = "o:android" THEN "s:android" ELSE "undefined"

\* receivedData.deviceInfo.platform: a TypeError on undefined and on null
Platform_NoOptionalChaining(deviceInfo) ==
    IF deviceInfo \in {"undefined", "null"}
    THEN [threw |-> TRUE, value |-> "undefined"]
    ELSE [threw |-> FALSE, value |-> PlatformOf(deviceInfo)]

\* receivedData.deviceInfo?.platform: undefined on undefined and on null, the
\* property otherwise (undefined on a string, number or boolean)
Platform(deviceInfo) ==
    [threw |-> FALSE,
     value |-> IF deviceInfo \in {"undefined", "null"} THEN "undefined"
               ELSE PlatformOf(deviceInfo)]

\* app.post('/api/mdb/receive') of part_000
old_receive(f, receivedData, now, out) ==
    IF ~Truthy(GetProp(receivedData, "timestamp"))
    THEN [file |-> f, resp |-> ErrorResp(400), io |-> NoIO]
    ELSE IF Platform(GetProp(receivedData, "deviceInfo")).threw
    THEN [file |-> f, resp |-> ErrorResp(500), io |-> NoIO]
    ELSE IF ~old_LoadsArray(f)
    THEN [file |-> f, resp |-> ErrorResp(500), io |-> ReadIO]
    ELSE
    LET allData == Append(old_loadData(f), receivedData)
        s       == old_saveData(f, allData, out)
    IN  [file   |-> s.file,
         resp   |-> IF s.saved THEN SuccessCount(Len(allData), now) ELSE ErrorResp(500),
         io     |-> [loads |-> 1, writes |-> 1, outcome |-> out.kind,
                     pushed |-> receivedData, sent |-> 1]]

\* app.get('/api/mdb/data') of part_000
old_getData(f) ==
    [file |-> f,
     resp |-> IF old_LoadsArray(f) THEN DataResp(old_loadData(f))
              ELSE [DataResp(old_loadData(f)) EXCEPT !.dataCount = -1],
     io |-> ReadIO]

\* app.get('/api/mdb/data/latest') of part_000
old_getLatest(f) ==
    IF ~old_LoadsArray(f)
    THEN [file |-> f, resp |-> ErrorResp(500), io |-> ReadIO]
    ELSE [file |-> f,
          resp |-> DataResp(Reverse(SliceLast(old_loadData(f), LatestN))),
          io |-> ReadIO]

\* app.get('/api/mdb/export') of part_000
old_export(f) ==
    [file |-> f,
     resp |-> RawResp(JSONstringifyValue(old_LoadsArray(f), old_loadData(f))),
     io |-> ReadIO]

\* app.delete('/api/mdb/data') of part_000
old_deleteData(f, out) ==
    LET s == old_saveData(f, <<>>, out) IN
    [file |-> s.file, resp |-> SuccessPlain,
     io |-> [loads |-> 0, writes |-> 1, outcome |-> out.kind, pushed |-> NoRecord,
             sent |-> 1]]

----------------------------------------------------------------------------
(* Spec: the server handling one request after another *)

NoResp == [status |-> 0, envelope |-> "none", dataCount |-> -1, data |-> <<>>,
           raw |-> <<>>, timestamp |-> "undefined"]
NoReq == [route |-> "none", body |-> <<>>]
IdleIO == [loads |-> 0, writes |-> 0, outcome |-> "none", pushed |-> NoRecord,
           sent |-> 0]
\* part_000 is not run beside server.js
NotRun == [file |-> NoFile, resp |-> NoResp, io |-> IdleIO]

\* DATA_FILE at startup: absent on first start, otherwise what an earlier run
\* of the server left
InitFiles == {NoFile, FileOf(JSONstringify(<<>>)), FileOf(JSONstringify(<<StampBody>>))}

Init ==
    /\ file \in InitFiles
    /\ req = NoReq
    /\ io = IdleIO
    /\ resp = NoResp
    /\ prior = 0
    /\ inflight = {}
    /\ answered = <<>>
    /\ active = <<>>
    /\ old = NotRun

\* the handler ran to completion on a request
Handled(route, body, h) ==
    /\ file' = h.file
    /\ req' = [route |-> route, body |-> body]
    /\ io' = h.io
    /\ resp' = h.resp
    /\ prior' = Len(loadData(file))
    /\ UNCHANGED <<inflight, answered, active, old>>

Room == Len(loadData(file)) < MaxLen

PostAutomation ==
    \E body \in Bodies, now \in Clock, out \in WriteOutcomes :
        Room /\ Handled("automation", body, automation(file, body, now, out))

PostAccount ==
    \E body \in Bodies, now \in Clock, out \in WriteOutcomes :
        Room /\ Handled("account", body, account(file, body, now, out))

PostReceive ==
    \E body \in LegacyBodies, now \in Clock, out \in WriteOutcomes :
        Room /\ Handled("receive", body, receive(file, body, now, out))

GetData == Handled("data", <<>>, getData(file))

GetLatest == Handled("latest", <<>>, getLatest(file))

GetExport == Handled("export", <<>>, export(file))

DeleteData ==
    \E out \in WriteOutcomes : Handled("delete", <<>>, deleteData(file, out))

GetHealth == \E now \in Clock : Handled("health", <<>>, health(file, now))

Next ==
    \/ PostAutomation
    \/ PostAccount
    \/ PostReceive
    \/ GetData
    \/ GetLatest
    \/ GetExport
    \/ DeleteData
    \/ GetHealth

Spec == Init /\ [][Next]_vars

----------------------------------------------------------------------------
(* SpecForeign: as Spec, but DATA_FILE may at startup hold valid JSON that is *)
(* no array (the file edited or replaced by hand): loadData returns it as it *)
(* is, and the handlers that use it as an array throw into their catch.      *)

ForeignFile == FileOf(<<LBrace, RBrace>>)

InitForeign ==
    /\ file \in InitFiles \cup {ForeignFile}
    /\ req = NoReq
    /\ io = IdleIO
    /\ resp = NoResp
    /\ prior = 0
    /\ inflight = {}
    /\ answered = <<>>
    /\ active = <<>>
    /\ old = NotRun

SpecForeign == InitForeign /\ [][Next]_vars

----------------------------------------------------------------------------
(* SpecEquiv: server.js and part_000 started on the same DATA_FILE content   *)
(* and given the same requests on the routes they share; a write of the two  *)
(* servers ends the same way, each reads its own clock.                       *)

DeviceBody     == <<<<"timestamp", "s:t3">>, <<"deviceInfo", "o:android">>>>
NullDeviceBody == <<<<"timestamp", "s:t4">>, <<"deviceInfo", "null">>>>
TextDeviceBody == <<<<"timestamp", "s:t5">>, <<"deviceInfo", "s:phone">>>>

EquivBodies ==
    {EmptyBody, StampBody, OverflowBody, FalseStampBody,
     DeviceBody, NullDeviceBody, TextDeviceBody}

OldClock == {"s:2024-06-01T12:00:00.250Z"}

Both(route, body, h, h0) ==
    /\ file' = h.file
    /\ req' = [route |-> route, body |-> body]
    /\ io' = h.io
    /\ resp' = h.resp
    /\ prior' = Len(loadData(file))
    /\ old' = [file |-> h0.file, resp |-> h0.resp, io |-> h0.io]
    /\ UNCHANGED <<inflight, answered, active>>

BothReceive ==
    \E body \in EquivBodies, now \in Clock, now0 \in OldClock,
       out \in WriteOutcomes :
        /\ Room
        /\ Both("receive", body, receive(file, body, now, out),
                old_receive(old.file, body, now0, out))

BothData == Both("data", <<>>, getData(file), old_getData(old.file))

BothLatest == Both("latest", <<>>, getLatest(file), old_getLatest(old.file))

BothExport == Both("export", <<>>, export(file), old_export(old.file))

BothDelete ==
    \E out \in WriteOutcomes :
        Both("delete", <<>>, deleteData(file, out), old_deleteData(old.file, out))

NextEquiv == BothReceive \/ BothData \/ BothLatest \/ BothExport \/ BothDelete

InitEquiv ==
    /\ file \in InitFiles \cup {ForeignFile}
    /\ req = NoReq
    /\ io = IdleIO
    /\ resp = NoResp
    /\ prior = 0
    /\ inflight = {}
    /\ answered = <<>>
    /\ active = <<>>
    /\ old = [file |-> file, resp |-> NoResp, io |-> IdleIO]

SpecEquiv == InitEquiv /\ [][NextEquiv]_vars

----------------------------------------------------------------------------
(* SpecLatest: the legacy route and the latest route on a long collection *)

LatestBodies == {StampBody, SpoofBody}
OkWrite == [kind |-> "ok", cut |-> 0]

LatestReceive ==
    \E body \in LatestBodies, now \in Clock :
        /\ Len(loadData(file)) < MaxLatestLen
        /\ Handled("receive", body, receive(file, body, now, OkWrite))

NextLatest ==
    \/ LatestReceive
    \/ GetLatest

SpecLatest == Init /\ [][NextLatest]_vars

----------------------------------------------------------------------------
(* SpecConc: append requests in flight together.  Every handler is           *)
(* synchronous (readFileSync, writeFileSync, no await), so the event loop    *)
(* runs the handlers of the requests in flight one at a time, in any order.  *)

AppendRoutes == {"automation", "account", "receive"}

ReqIds == 1..MaxInflight

\* the body of request id: each request carries its own seq
ConcBody(id) == <<<<"timestamp", "s:t">>, <<"seq", ToString(id)>>>>

Used == {r.id : r \in inflight} \cup DOMAIN answered

\* the HTTP layer has parsed a request; its handler is queued
ConcArrive ==
    \E id \in ReqIds \ Used, route \in AppendRoutes :
        /\ inflight' = inflight \cup {[id |-> id, route |-> route, body |-> ConcBody(id)]}
        /\ UNCHANGED <<file, req, io, resp, prior, answered, active, old>>

RouteHandler(route, f, body, now, out) ==
    CASE route = "automation" -> automation(f, body, now, out)
      [] route = "account"    -> account(f, body, now, out)
      [] OTHER                -> receive(f, body, now, out)

\* the event loop runs the handler of one request in flight to completion
ConcHandle ==
    \E r \in inflight, now \in Clock, out \in WriteOutcomes :
        LET h == RouteHandler(r.route, file, r.body, now, out) IN
        /\ file' = h.file
        /\ req' = [route |-> r.route, body |-> r.body]
        /\ io' = h.io
        /\ resp' = h.resp
        /\ prior' = Len(loadData(file))
        /\ inflight' = inflight \ {r}
        /\ answered' = answered @@
               (r.id :> [resp |-> h.resp, io |-> h.io,
                         overlap |-> Cardinality(inflight)])
        /\ UNCHANGED <<active, old>>

NextConc ==
    \/ ConcArrive
    \/ ConcHandle

SpecConc == Init /\ [][NextConc]_vars

----------------------------------------------------------------------------
(* SpecSteps: the handlers of appends, clears and reads taken one statement   *)
(* at a time.  loadData and saveData call fs.readFileSync and                *)
(* fs.writeFileSync, and no handler awaits anything: a handler that has      *)
(* started stays on the call stack until it has answered, and the event loop *)
(* starts the next one only then.                                            *)

StepRoutes == {"automation", "receive", "delete", "data", "latest", "export"}

\* the ways a write can end that SpecSteps explores
StepOutcomes == {o \in WriteOutcomes : o.cut = 0}

StepBody(id, route) == IF route \in AppendRoutes THEN ConcBody(id) ELSE <<>>

UsedSteps == {r.id : r \in inflight} \cup DOMAIN active \cup DOMAIN answered

\* the whole handler of a route, as one function of the file it starts from
Serve(route, f, body, now, out) ==
    CASE route = "automation" -> automation(f, body, now, out)
      [] route = "account"    -> account(f, body, now, out)
      [] route = "receive"    -> receive(f, body, now, out)
      [] route = "data"       -> getData(f)
      [] route = "latest"     -> getLatest(f)
      [] route = "export"     -> export(f)
      [] route = "delete"     -> deleteData(f, out)
      [] OTHER                -> health(f, now)

\* the handlers awaiting fs.promises calls: another may start meanwhile
CanStart_Async(a) == TRUE

\* a handler starts when no handler is on the call stack
CanStart(a) == DOMAIN a = {}

Without(f, id) == [x \in DOMAIN f \ {id} |-> f[x]]

StepArrive ==
    \E id \in ReqIds \ UsedSteps, route \in StepRoutes :
        /\ inflight' = inflight \cup
               {[id |-> id, route |-> route, body |-> StepBody(id, route)]}
        /\ UNCHANGED <<file, req, io, resp, prior, answered, active, old>>

\* the event loop calls the handler of a request in flight
StepStart ==
    \E r \in inflight :
        /\ CanStart(active)
        /\ inflight' = inflight \ {r}
        /\ active' = active @@
               (r.id :> [route |-> r.route, body |-> r.body, pc |-> "entry",
                         start |-> file, allData |-> <<>>])
        /\ UNCHANGED <<file, req, io, resp, prior, answered, old>>

\* let allData = loadData()
StepLoad ==
    \E id \in DOMAIN active :
        /\ active[id].pc = "entry"
        /\ active[id].route # "delete"
        /\ active' = [active EXCEPT ![id].pc = "loaded",
                                     ![id].allData = loadData(file)]
        /\ UNCHANGED <<file, req, io, resp, prior, inflight, answered, old>>

\* the record a POST handler pushes
PushedBy(route, body, now) ==
    IF route = "receive" THEN body
    ELSE Tagged(IF route = "automation" THEN "s:automation" ELSE "s:account",
                body, now)

Answer(id, r, now, out) ==
    /\ answered' = answered @@
           (id :> [route |-> active[id].route, body |-> active[id].body,
                   start |-> active[id].start, end |-> file', now |-> now,
                   out |-> out, resp |-> r, waiting |-> Cardinality(inflight)])
    /\ active' = Without(active, id)
    /\ UNCHANGED <<req, io, resp, prior, inflight, old>>

\* allData.push(record); saveData(allData); res.status(...).json(...)
StepPushSave ==
    \E id \in DOMAIN active, now \in Clock, out \in StepOutcomes :
        /\ active[id].pc = "loaded"
        /\ active[id].route \in AppendRoutes
        /\ LET allData == Append(active[id].allData,
                                 PushedBy(active[id].route, active[id].body, now))
               s       == saveData(file, allData, out)
           IN  /\ file' = s.file
               /\ Answer(id, IF s.saved THEN SuccessCount(Len(allData), now)
                                         ELSE ErrorResp(500), now, out)

\* saveData([]); res.json({success: true, message})
StepClear ==
    \E id \in DOMAIN active, now \in Clock, out \in StepOutcomes :
        /\ active[id].pc = "entry"
        /\ active[id].route = "delete"
        /\ file' = saveData(file, <<>>, out).file
        /\ Answer(id, SuccessPlain, now, out)

\* res.json({count, data}) / res.send(JSON.stringify(allData, null, 2))
StepRead ==
    \E id \in DOMAIN active, now \in Clock :
        /\ active[id].pc = "loaded"
        /\ active[id].route \in {"data", "latest", "export"}
        /\ file' = file
        /\ Answer(id,
                  CASE active[id].route = "data" -> DataResp(active[id].allData)
                    [] active[id].route = "latest" ->
                           DataResp(Latest(active[id].allData))
                    [] OTHER -> RawResp(JSONstringify(active[id].allData)),
                  now, OkWrite)

NextSteps ==
    \/ StepArrive
    \/ StepStart
    \/ StepLoad
    \/ StepPushSave
    \/ StepClear
    \/ StepRead

SpecSteps == Init /\ [][NextSteps]_vars

----------------------------------------------------------------------------
(* Properties *)

Last(s) == s[Len(s)]
Min(a, b) == IF a <= b THEN a ELSE b

\* the set of key/value pairs of an object: two objects are structurally
\* equal when they have the same pairs, whatever the order of the keys
Pairs(obj) == {obj[i] : i \in DOMAIN obj}
SameObject(a, b) == Pairs(a) = Pairs(b)

\* a record as JSON text can hold it
AsJSON(obj) == [i \in DOMAIN obj |-> <<obj[i][1], SerializeValue(obj[i][2])>>]

\* number of positions of s that hold x
Count(x, s) == Cardinality({i \in DOMAIN s : s[i] = x})

Parseable(f) == f.exists /\ JSONparse(f.content).ok

AppendOk == req.route \in AppendRoutes /\ resp.status = 200

\* C1: every successful append request (any of the three POST routes) turns
\* the collection Load returns into the same collection followed by the
\* record the request appended, as saveData serialises it; a run of N such
\* requests therefore leaves C followed by the N records in handling order.
C1_AppendsInOrder ==
    [][ (req'.route \in AppendRoutes /\ resp'.status = 200)
        => loadData(file') = Append(loadData(file), AsJSON(io'.pushed)) ]_vars

\* two successful appends in a row left two different records, in order
C1_Witness ==
    /\ AppendOk
    /\ prior >= 1
    /\ Len(loadData(file)) = prior + 1
    /\ loadData(file)[prior] # loadData(file)[prior + 1]

AllWritesOk == \A id \in DOMAIN answered : answered[id].io.outcome = "ok"

\* C2: when append requests are in flight together and the storage accepts
\* every write, each of them is answered 200 and the record of each is in the
\* collection Load returns exactly once, in whatever order the handlers ran.
C2_NoLostUpdate ==
    AllWritesOk =>
        \A id \in DOMAIN answered :
            /\ answered[id].resp.status = 200
            /\ Count(answered[id].io.pushed, loadData(file)) = 1

\* at least two requests were in flight at once, and all have been handled
C2_Witness ==
    /\ inflight = {}
    /\ Cardinality(DOMAIN answered) >= 2
    /\ AllWritesOk
    /\ \E id \in DOMAIN answered :
           answered[id].overlap = Cardinality(DOMAIN answered)

\* C3: an append request whose write fails is answered 500 and leaves the
\* collection Load returns, and the parseability of the file, as they were.
C3_FailedWriteKeepsData ==
    [][ (req'.route \in AppendRoutes /\ io'.writes = 1 /\ io'.outcome # "ok")
        => /\ resp'.status = 500
           /\ loadData(file') = loadData(file)
           /\ (Parseable(file) => Parseable(file')) ]_vars

\* C4: a Clear whose write fails is answered with the 500 error envelope, and
\* the success envelope is never sent while the collection is non-empty.
C4_ClearReportsWriteFailure ==
    req.route = "delete" =>
        /\ io.outcome # "ok" => (resp.status = 500 /\ resp.envelope = "error")
        /\ resp.envelope = "success" => loadData(file) = <<>>

\* C5: after a Clear whose write succeeded the file holds a valid, empty
\* collection: Load returns the empty collection, whatever was there before.
C5_ClearEmpties ==
    (req.route = "delete" /\ io.outcome = "ok")
        => Parseable(file) /\ loadData(file) = <<>>

\* a Clear succeeded on a collection of two records
C5_Witness ==
    /\ req.route = "delete"
    /\ io.outcome = "ok"
    /\ prior >= 2
    /\ loadData(file) = <<>>

\* C6: the latest route answers with the last min(10, size) records of Load,
\* most recent first, and count = min(10, size).
C6_LatestIsReversedTail ==
    req.route = "latest" =>
        LET all == loadData(file)
            n   == Min(LatestN, Len(all))
        IN  /\ resp.dataCount = n
            /\ Len(resp.data) = n
            /\ \A i \in 1..n : resp.data[i] = all[Len(all) + 1 - i]

\* the latest route answered on a collection of more than ten records whose
\* newest and eleventh-newest records differ
C6_Witness ==
    /\ req.route = "latest"
    /\ Len(loadData(file)) > LatestN
    /\ resp.dataCount = LatestN
    /\ resp.data[1] # resp.data[2]
    /\ Last(loadData(file)) # loadData(file)[Len(loadData(file)) - LatestN]

\* C7: the text the export route sends parses as JSON, and the value parsed
\* is equal to what Load returns on the same file.
C7_ExportRoundTrip ==
    req.route = "export" =>
        LET p == JSONparse(resp.raw) IN
        p.ok /\ p.value = loadData(file)

\* an export of two different records, one of which was stored with a null
\* in place of a non-finite number
C7_Witness ==
    /\ req.route = "export"
    /\ Len(loadData(file)) >= 2
    /\ loadData(file)[1] # loadData(file)[2]
    /\ \E i \in DOMAIN loadData(file) :
           GetProp(loadData(file)[i], "timestamp") = "null"

\* C8: a POST to the legacy route whose body has no timestamp field is
\* answered 400 without any call of loadData or saveData, and the file is as
\* it was.
C8_MissingTimestampRejected ==
    [][ (req'.route = "receive" /\ GetProp(req'.body, "timestamp") = "undefined")
        => /\ resp'.status = 400
           /\ io'.loads = 0
           /\ io'.writes = 0
           /\ file' = file ]_vars

\* the body {} was rejected while the collection held a record
C8_Witness ==
    /\ req.route = "receive"
    /\ req.body = EmptyBody
    /\ resp.status = 400
    /\ Len(loadData(file)) >= 1

\* C9: the record a successful legacy POST leaves at the end of the collection
\* is structurally equal to the request body.
C9_LegacyRecordIsBody ==
    (req.route = "receive" /\ resp.status = 200)
        => SameObject(Last(loadData(file)), req.body)

TagOf(route) == IF route = "automation" THEN "s:automation" ELSE "s:account"

\* C10: the record a successful POST /automation (/account) leaves at the end
\* of the collection has type "automation" ("account"), and every other field
\* of the body except receivedAt is in it with the value JSON gives it.
C10_TypeTagAlwaysSet ==
    (req.route \in {"automation", "account"} /\ resp.status = 200)
        => LET r == Last(loadData(file)) IN
           /\ GetProp(r, "type") = TagOf(req.route)
           /\ \A i \in DOMAIN req.body :
                  req.body[i][1] \notin {"type", "receivedAt"}
                      => GetProp(r, req.body[i][1]) = SerializeValue(req.body[i][2])

\* C11: a successful append request on any of the three POST routes reports
\* dataCount = (number of records Load returned before the request) + 1, and
\* that is the length of the collection Load returns right after it.
C11_DataCountIsNewLength ==
    AppendOk =>
        /\ resp.dataCount = prior + 1
        /\ resp.dataCount = Len(loadData(file))

\* a record was appended to a non-empty collection
C11_Witness ==
    /\ AppendOk
    /\ prior >= 1
    /\ resp.dataCount = Len(loadData(file))

\* s is a prefix of t
IsPrefix(s, t) == Len(s) <= Len(t) /\ SubSeq(t, 1, Len(s)) = s

\* C12: every request other than Clear leaves a collection of which the
\* collection before it is a prefix.
C12_OnlyGrowsOrClears ==
    [][ req'.route # "delete" => IsPrefix(loadData(file), loadData(file')) ]_vars

\* C13: in any mix of append, clear and read requests in flight together,
\* at most one handler is between its start and its answer, the file is not
\* written by anyone else while it is, and every request is answered, and
\* leaves the file, exactly as its whole handler does when applied to the
\* file it found at its start: the run is the serial run in order of answer.
C13_Serializable ==
    /\ Cardinality(DOMAIN active) <= 1
    /\ \A id \in DOMAIN active : file = active[id].start
    /\ \A id \in DOMAIN answered :
           LET a == answered[id]
               h == Serve(a.route, a.start, a.body, a.now, a.out)
           IN  a.resp = h.resp /\ a.end = h.file

\* an append was answered while a read was waiting for its handler to run,
\* and the read then returned the appended record
C13_Witness ==
    /\ \E id \in DOMAIN answered :
           /\ answered[id].route = "automation"
           /\ answered[id].resp.status = 200
           /\ answered[id].waiting >= 1
    /\ \E id \in DOMAIN answered :
           /\ answered[id].route = "data"
           /\ answered[id].waiting = 0
           /\ answered[id].resp.dataCount >= 1

\* C14: when DATA_FILE exists and does not parse, an append request never
\* replaces it by a collection that holds the new record alone.
C14_FallbackNotPersisted ==
    [][ (file.exists /\ ~Parseable(file) /\ req'.route \in AppendRoutes
             /\ io'.writes = 1)
        => ~(Parseable(file') /\ loadData(file') = <<AsJSON(io'.pushed)>>) ]_vars

\* C15: the legacy route rejects a body with 400, without touching the store,
\* exactly when its timestamp is missing, 0, "", null or false; for every
\* other timestamp, of any type, it pushes the body and writes once, and
\* answers 200 when the write succeeds.
C15_TruthyTimestampDecides ==
    req.route = "receive" =>
        IF GetProp(req.body, "timestamp") \in {"undefined", "n:0", "s:", "null", "b:false"}
        THEN resp = ErrorResp(400) /\ io = NoIO
        ELSE /\ io.loads = 1 /\ io.writes = 1 /\ io.pushed = req.body
             /\ resp.status = IF io.outcome = "ok" THEN 200 ELSE 500

\* a body whose timestamp is present but falsy was rejected, after a body whose
\* timestamp is the boolean true had been appended
C15_Witness ==
    /\ req.route = "receive"
    /\ GetProp(req.body, "timestamp") \in {"n:0", "s:", "null", "b:false"}
    /\ resp.status = 400
    /\ \E i \in DOMAIN loadData(file) :
           GetProp(loadData(file)[i], "timestamp") = "b:true"

\* C16: the record a successful POST /automation or /account leaves at the
\* end of the collection has as receivedAt the time the gateway read from its
\* clock, whatever receivedAt the body carried.
C16_ReceivedAtFromGateway ==
    (req.route \in {"automation", "account"} /\ resp.status = 200)
        => GetProp(Last(loadData(file)), "receivedAt") \in Clock

\* a body carrying its own receivedAt, not a clock value, was appended
C16_Witness ==
    /\ req.route \in {"automation", "account"}
    /\ resp.status = 200
    /\ GetProp(req.body, "receivedAt") \notin Clock \cup {"undefined"}

ReadRoutes == {"health", "data", "latest", "export"}

StoreRoutes == {"automation", "account", "receive", "data", "latest", "export",
                "delete"}

\* C17: a request to the health, read-all, read-latest or export route leaves
\* the persisted file exactly as it was - missing stays missing, unparseable
\* stays unparseable, a foreign value stays - and makes no write attempt.
C17_ReadsLeaveFileUnchanged ==
    [][ req'.route \in ReadRoutes => (file' = file /\ io'.writes = 0) ]_vars

\* a read-all answered while the file is present and unparseable
C17_Witness ==
    /\ req.route = "data"
    /\ resp.status = 200
    /\ file.exists /\ ~Parseable(file)

\* C18: every request handled by a store route makes at most one write
\* attempt, whatever the outcome of that attempt, and sends exactly one
\* response, on each of its paths: success (200), validation rejection (400,
\* nothing loaded or written), write failure (500 after the one attempt) and
\* caught exception (500, nothing written).
C18_OneWriteOneResponse ==
    req.route \in StoreRoutes =>
        /\ io.writes <= 1
        /\ io.sent = 1
        /\ resp.status \in {200, 400, 500}
        /\ resp.status = 400 => io.writes = 0 /\ io.loads = 0
        /\ io.outcome \in {"eacces", "enospc"} => io.writes = 1

\* the caught-exception path of an append route: the file holds a JSON value
\* that is no array, push throws, one 500 is sent and nothing is written
C18_Witness ==
    /\ req.route = "automation"
    /\ ~LoadsArray(file)
    /\ resp = ErrorResp(500)
    /\ io.writes = 0 /\ io.sent = 1

SharedRoutes == {"receive", "data", "latest", "export", "delete"}

\* a response with its timestamp left out
Untimed(r) == [r EXCEPT !.timestamp = "undefined"]

\* C19: after every sequence of legacy-receive, read-all, read-latest, export
\* and clear requests given to both servers from the same DATA_FILE content,
\* server.js and part_000 have answered the last request with the same status
\* and the same payload, timestamps aside, and their files are the same.
C19_VersionsAgree ==
    /\ old.file = file
    /\ Untimed(old.resp) = Untimed(resp)

\* both servers accepted a legacy record that has no deviceInfo, onto a
\* collection that was not empty, and stamped their answers differently
C19_Witness ==
    /\ req.route = "receive"
    /\ GetProp(req.body, "deviceInfo") = "undefined"
    /\ prior >= 1
    /\ resp.status = 200 /\ old.resp.status = 200
    /\ resp.timestamp # old.resp.timestamp
    /\ Len(loadData(old.file)) = prior + 1

====
